---- MODULE Spec2Model ----
(***************************************************************************)
(* Model of internal/module/openapi.go: the generator of Helm values from  *)
(* OpenAPI schemas (parseProperties / parseProperty and the rules under    *)
(* it), the oneOf/anyOf schema merge, the digest overlay and the assembly  *)
(* of the render context.                                                  *)
(*                                                                         *)
(* Go values of type `any` are records [k, n, m, s, id]:                   *)
(*   k  = "nil" | "int" | "map" | "seq"                                    *)
(*   n  the scalar, m the map[string]any, s the []any                      *)
(*   id the address of a map object (<<>> for a map made during the call,  *)
(*      which nothing outside the call holds).  Go maps are references: result[key] = prop.Default  *)
(*      puts the schema's own map into the value tree, and mergo.Merge     *)
(*      writes into the maps of its destination in place.  A write is a    *)
(*      record [id, v]: the object at address id now holds v.              *)
(***************************************************************************)
EXTENDS Integers, Sequences, FiniteSets, TLC

VARIABLES
    root,        \* SpecGen: the root schema handed to NewOpenAPIValuesGenerator
    pre,         \* SpecGen: root as it was when the last Do() started
    out,         \* SpecGen: what the last Do() returned
    first,       \* SpecGen: what the first Do() on this root returned
    calls,       \* number of calls made so far
    store,       \* Spec: the schema documents the loader holds (module, global)
    defaultCaps, \* Spec: chartutil.DefaultCapabilities.APIVersions
    defaultDigests, \* Spec: DefaultImagesDigests
    digestFile,  \* Spec: images_digests.json beside each module
    pc,          \* Spec: where each worker's call stands
    validated,   \* Spec: what NewValuesValidator returned to each worker's call
    vers,        \* Spec: each call's local `vers`
    raw,         \* Spec: each call's rawValues, as Do() returned them
    ret          \* Spec: what each worker's last call returned

vars == <<root, pre, out, first, calls, store, defaultCaps, defaultDigests,
          digestFile, pc, validated, vers, raw, ret>>
genVars == <<root, pre, out, first>>
composeVars == <<store, defaultCaps, defaultDigests, digestFile, pc, validated, vers, raw, ret>>

ExamplesKey == "x-examples"
ArrayObject == "array"
ObjectKey == "object"

\* Bounds of the model.
MaxCalls == 2
MaxBranches == 2

----------------------------------------------------------------------------
(* Values *)

Fresh == <<>>
NoMap == <<>>

Nil == [k |-> "nil", n |-> 0, m |-> NoMap, s |-> <<>>, id |-> Fresh]
IntV(i) == [k |-> "int", n |-> i, m |-> NoMap, s |-> <<>>, id |-> Fresh]
MapV(f) == [k |-> "map", n |-> 0, m |-> f, s |-> <<>>, id |-> Fresh]
SeqV(q) == [k |-> "seq", n |-> 0, m |-> NoMap, s |-> q, id |-> Fresh]

K1(a, va) == [z \in {a} |-> va]
K2(a, va, b, vb) == [z \in {a, b} |-> IF z = a THEN va ELSE vb]

IdxName == <<"0", "1", "2", "3", "4", "5">>

RECURSIVE Strip(_)
\* The value with every map a new object: what a deep copy yields, and what
\* is left when only the content of a value matters.
Strip(v) ==
    CASE v.k = "map" -> [v EXCEPT !.id = Fresh, !.m = [z \in DOMAIN v.m |-> Strip(v.m[z])]]
      [] v.k = "seq" -> [v EXCEPT !.s = [i \in DOMAIN v.s |-> Strip(v.s[i])]]
      [] OTHER -> v

RECURSIVE Label(_, _)
\* The value as an object stored at address addr: each map in it gets the
\* address it lives at.
Label(v, addr) ==
    CASE v.k = "map" -> [v EXCEPT !.id = addr,
                                  !.m = [z \in DOMAIN v.m |-> Label(v.m[z], addr \o <<z>>)]]
      [] v.k = "seq" -> [v EXCEPT !.s = [i \in DOMAIN v.s |-> Label(v.s[i], addr \o <<IdxName[i]>>)]]
      [] OTHER -> v

RECURSIVE ReplaceId(_, _, _)
\* The value after the map object at address id has been written in place.
ReplaceId(v, id, new) ==
    CASE v.k = "map" ->
            IF v.id = id THEN new
            ELSE [v EXCEPT !.m = [z \in DOMAIN v.m |-> ReplaceId(v.m[z], id, new)]]
      [] v.k = "seq" -> [v EXCEPT !.s = [i \in DOMAIN v.s |-> ReplaceId(v.s[i], id, new)]]
      [] OTHER -> v

RECURSIVE SetToSeq(_)
SetToSeq(S) ==
    IF S = {} THEN <<>>
    ELSE LET z == CHOOSE z \in S : TRUE IN <<z>> \o SetToSeq(S \ {z})

RECURSIVE Concat(_)
Concat(ss) == IF ss = <<>> THEN <<>> ELSE Head(ss) \o Concat(Tail(ss))

----------------------------------------------------------------------------
(* dario.cat/mergo, as called with mergo.WithOverride on map[string]any *)

RECURSIVE deepMerge_Shallow(_, _)
\* deepMerge replacing the value under every key of src, maps included.
deepMerge_Shallow(dst, src) ==
    LET merged == [dst EXCEPT !.m = [z \in (DOMAIN dst.m) \cup (DOMAIN src.m) |->
                                        IF z \in DOMAIN src.m THEN src.m[z] ELSE dst.m[z]]]
    IN  [v |-> merged,
         w |-> IF dst.id = Fresh THEN <<>> ELSE <<[id |-> dst.id, v |-> merged]>>]

RECURSIVE deepMerge(_, _)
\* mergo's merge of the map src into the map dst.  Every key of src is set in
\* dst; when both sides hold a map under a key (and not both are empty) the
\* merge descends into dst's map and writes it in place, otherwise the
\* element of src (a reference to it) is stored.  Returns the content of dst
\* afterwards and the writes to the map objects on the way.
deepMerge(dst, src) ==
    LET descend(z) == /\ z \in DOMAIN dst.m
                      /\ src.m[z].k = "map"
                      /\ dst.m[z].k = "map"
                      /\ (dst.m[z].m # NoMap \/ src.m[z].m # NoMap)
        at(z) == IF descend(z) THEN deepMerge(dst.m[z], src.m[z])
                 ELSE [v |-> src.m[z], w |-> <<>>]
        merged == [dst EXCEPT !.m = [z \in (DOMAIN dst.m) \cup (DOMAIN src.m) |->
                                        IF z \in DOMAIN src.m THEN at(z).v ELSE dst.m[z]]]
        keys == SetToSeq(DOMAIN src.m)
        below == Concat([i \in DOMAIN keys |-> at(keys[i]).w])
    IN  [v |-> merged,
         w |-> IF dst.id = Fresh THEN below ELSE below \o <<[id |-> dst.id, v |-> merged]>>]

\* mergo.Merge(&dst, src, mergo.WithOverride) with dst a map[string]any: an
\* error unless src is a map[string]any too.
Merge(dst, src) ==
    IF src.k # "map"
    THEN [st |-> "err", v |-> dst, w |-> <<>>]
    ELSE LET r == deepMerge(dst, src) IN [st |-> "ok", v |-> r.v, w |-> r.w]

----------------------------------------------------------------------------
(* spec.Schema *)

NilOf == [set |-> FALSE, of |-> <<>>]
Of(branches) == [set |-> TRUE, of |-> branches]

\* A schema with nothing set.
Schema0 ==
    [types |-> {}, properties |-> NoMap, items |-> <<>>, enum |-> <<>>,
     default |-> Nil, examples |-> Nil, oneOf |-> NilOf, anyOf |-> NilOf, allOf |-> NilOf]

RECURSIVE LabelSchema(_, _)
\* A schema as the loader holds it at address addr: every map in it is an
\* object of its own, named by the place it is stored at.
LabelSchema(node, addr) ==
    LET branches(f, name) ==
            [set |-> f.set,
             of |-> [i \in DOMAIN f.of |-> LabelSchema(f.of[i], addr \o <<name, IdxName[i]>>)]]
    IN  [types |-> node.types,
         properties |-> [z \in DOMAIN node.properties |->
                            LabelSchema(node.properties[z], addr \o <<"properties", z>>)],
         items |-> [i \in DOMAIN node.items |-> LabelSchema(node.items[i], addr \o <<"items">>)],
         enum |-> [i \in DOMAIN node.enum |-> Label(node.enum[i], addr \o <<"enum", IdxName[i]>>)],
         default |-> Label(node.default, addr \o <<"default">>),
         examples |-> Label(node.examples, addr \o <<ExamplesKey>>),
         oneOf |-> branches(node.oneOf, "oneOf"),
         anyOf |-> branches(node.anyOf, "anyOf"),
         allOf |-> branches(node.allOf, "allOf")]

RECURSIVE DeepCopy(_)
\* deepcopy.Copy(prop): the same content in new objects.
DeepCopy(node) ==
    LET branches(f) == [set |-> f.set, of |-> [i \in DOMAIN f.of |-> DeepCopy(f.of[i])]]
    IN  [types |-> node.types,
         properties |-> [z \in DOMAIN node.properties |-> DeepCopy(node.properties[z])],
         items |-> [i \in DOMAIN node.items |-> DeepCopy(node.items[i])],
         enum |-> [i \in DOMAIN node.enum |-> Strip(node.enum[i])],
         default |-> Strip(node.default),
         examples |-> Strip(node.examples),
         oneOf |-> branches(node.oneOf),
         anyOf |-> branches(node.anyOf),
         allOf |-> branches(node.allOf)]

RECURSIVE WriteSchema(_, _)
\* The schema after the write wr to a map object.
WriteSchema(node, wr) ==
    LET branches(f) == [set |-> f.set, of |-> [i \in DOMAIN f.of |-> WriteSchema(f.of[i], wr)]]
    IN  [types |-> node.types,
         properties |-> [z \in DOMAIN node.properties |-> WriteSchema(node.properties[z], wr)],
         items |-> [i \in DOMAIN node.items |-> WriteSchema(node.items[i], wr)],
         enum |-> [i \in DOMAIN node.enum |-> ReplaceId(node.enum[i], wr.id, wr.v)],
         default |-> ReplaceId(node.default, wr.id, wr.v),
         examples |-> ReplaceId(node.examples, wr.id, wr.v),
         oneOf |-> branches(node.oneOf),
         anyOf |-> branches(node.anyOf),
         allOf |-> branches(node.allOf)]

RECURSIVE ApplyWrites(_, _)
\* The schema after the writes ws, in order.
ApplyWrites(node, ws) ==
    IF ws = <<>> THEN node ELSE ApplyWrites(WriteSchema(node, Head(ws)), Tail(ws))

----------------------------------------------------------------------------
(* The values generator *)

\* result[key] = v
Set(f, key, v) == [z \in (DOMAIN f) \cup {key} |-> IF z = key THEN v ELSE f[z]]

Keep(result) == [st |-> "ok", result |-> result, w |-> <<>>]
Put(result, key, v, w) == [st |-> "ok", result |-> Set(result, key, v), w |-> w]
Fail(st, result, w) == [st |-> st, result |-> result, w |-> w]

\* `for key := range tempNode.Properties`: Go leaves the order open; ord is
\* the order this run takes.
RECURSIVE Among(_, _)
Among(ord, keys) ==
    IF ord = <<>> THEN <<>>
    ELSE (IF Head(ord) \in keys THEN <<Head(ord)>> ELSE <<>>) \o Among(Tail(ord), keys)

Range(tempNode, ord) == Among(ord, DOMAIN tempNode.properties)

\* Overlay keeping the schema already there under a key a branch declares too.
Overlay_FirstWins(rootSchema, schema) ==
    [z \in (DOMAIN rootSchema.properties) \cup (DOMAIN schema.properties) |->
        IF z \in DOMAIN rootSchema.properties THEN rootSchema.properties[z]
        ELSE schema.properties[z]]

\* The property set of rootSchema overlaid by that of schema.
Overlay(rootSchema, schema) ==
    [z \in (DOMAIN rootSchema.properties) \cup (DOMAIN schema.properties) |->
        IF z \in DOMAIN schema.properties THEN schema.properties[z]
        ELSE rootSchema.properties[z]]

RECURSIVE mergeLoop(_, _)
mergeLoop(rootSchema, schemas) ==
    IF schemas = <<>> THEN rootSchema
    ELSE LET schema == Head(schemas)
         IN  mergeLoop([rootSchema EXCEPT !.properties = Overlay(rootSchema, schema),
                                          !.oneOf = schema.oneOf,
                                          !.allOf = schema.allOf,
                                          !.anyOf = schema.anyOf],
                       Tail(schemas))

mergeSchemas(rootSchema, schemas) ==
    mergeLoop([rootSchema EXCEPT !.oneOf = NilOf, !.allOf = NilOf, !.anyOf = NilOf], schemas)

RECURSIVE parseProperties(_, _)
RECURSIVE parseEach(_, _, _, _)
RECURSIVE parseNext(_, _, _, _, _)
RECURSIVE parseProperty(_, _, _, _)
RECURSIVE parseExamples(_, _, _, _)
RECURSIVE parseObject(_, _, _, _)
RECURSIVE parseArray(_, _, _, _)
RECURSIVE parseOneOf(_, _, _, _)
RECURSIVE parseAnyOf(_, _, _, _)

\* The loop of parseProperties over the keys still to visit: parseProperty on
\* the next key, and parseNext on what it returned (r).
parseEach(tempNode, keys, acc, ord) ==
    IF keys = <<>> THEN acc
    ELSE parseNext(tempNode, Tail(keys), acc,
                   parseProperty(Head(keys), tempNode.properties[Head(keys)], acc.result, ord),
                   ord)

parseNext(tempNode, keys, acc, r, ord) ==
    IF r.st # "ok" THEN Fail(r.st, acc.result, acc.w \o r.w)
    ELSE parseEach(tempNode, keys, [st |-> "ok", result |-> r.result, w |-> acc.w \o r.w], ord)

\* What parseProperties returns after its loop ended as r.
Returned(r) == [st |-> r.st, v |-> IF r.st = "ok" THEN MapV(r.result) ELSE Nil, w |-> r.w]

\* Returns [st, v, w]: v the new map (nil when st is not "ok"), w the writes
\* made to maps that were there before the call.
parseProperties(tempNode, ord) ==
    Returned(parseEach(tempNode, Range(tempNode, ord), Keep(NoMap), ord))

\* `if err != nil { return err }; result[key] = t` on what parseProperties
\* returned (t).
Store(key, result, t) ==
    IF t.st # "ok" THEN Fail(t.st, result, t.w) ELSE Put(result, key, t.v, t.w)

\* result[key] = t after mergo.Merge(&t, example) returned mg.
StoreMerged(key, result, t, mg) ==
    IF mg.st # "ok" THEN Fail(mg.st, result, t.w \o mg.w)
    ELSE Put(result, key, mg.v, t.w \o mg.w)

\* The object branch of parseExamples on what parseProperties returned (t).
MergeExample(key, result, t, example) ==
    IF t.st # "ok" THEN Fail(t.st, result, t.w)
    ELSE StoreMerged(key, result, t, Merge(t.v, example))

parseEnum(key, prop, result) ==
    LET t == IF prop.default.k # "nil" THEN prop.default ELSE prop.enum[1]
    IN  Put(result, key, t, <<>>)

\* parseProperty with the oneOf and anyOf rules tried before allOf.
parseProperty_AllOfLast(key, prop, result, ord) ==
    CASE prop.examples.k # "nil" -> parseExamples(key, prop, result, ord)
      [] Len(prop.enum) > 0 -> parseEnum(key, prop, result)
      [] ObjectKey \in prop.types -> parseObject(key, prop, result, ord)
      [] prop.default.k # "nil" -> Put(result, key, prop.default, <<>>)
      [] ArrayObject \in prop.types /\ prop.items # <<>> -> parseArray(key, prop, result, ord)
      [] prop.oneOf.set -> parseOneOf(key, prop, result, ord)
      [] prop.anyOf.set -> parseAnyOf(key, prop, result, ord)
      [] OTHER -> Keep(result)

\* parseProperty with the default rule tried before the object rule.
parseProperty_DefaultFirst(key, prop, result, ord) ==
    CASE prop.examples.k # "nil" -> parseExamples(key, prop, result, ord)
      [] Len(prop.enum) > 0 -> parseEnum(key, prop, result)
      [] prop.default.k # "nil" -> Put(result, key, prop.default, <<>>)
      [] ObjectKey \in prop.types -> parseObject(key, prop, result, ord)
      [] ArrayObject \in prop.types /\ prop.items # <<>> -> parseArray(key, prop, result, ord)
      [] prop.allOf.set -> Keep(result)
      [] prop.oneOf.set -> parseOneOf(key, prop, result, ord)
      [] prop.anyOf.set -> parseAnyOf(key, prop, result, ord)
      [] OTHER -> Keep(result)

parseProperty(key, prop, result, ord) ==
    CASE prop.examples.k # "nil" -> parseExamples(key, prop, result, ord)
      [] Len(prop.enum) > 0 -> parseEnum(key, prop, result)
      [] ObjectKey \in prop.types -> parseObject(key, prop, result, ord)
      [] prop.default.k # "nil" -> Put(result, key, prop.default, <<>>)
      [] ArrayObject \in prop.types /\ prop.items # <<>> -> parseArray(key, prop, result, ord)
      [] prop.allOf.set -> Keep(result)
      [] prop.oneOf.set -> parseOneOf(key, prop, result, ord)
      [] prop.anyOf.set -> parseAnyOf(key, prop, result, ord)
      [] OTHER -> Keep(result)

\* parseExamples without the test `example != nil`.
parseExamples_StoreNil(key, prop, result, ord) ==
    LET conv == prop.examples
        example == CASE conv.k = "seq" -> conv.s[1]
                     [] conv.k = "map" -> conv
                     [] OTHER -> Nil
    IN  IF conv.k = "seq" /\ conv.s = <<>> THEN Fail("panic", result, <<>>)
        ELSE IF ObjectKey \in prop.types
             THEN MergeExample(key, result, parseProperties(prop, ord), example)
        ELSE Put(result, key, example, <<>>)

parseExamples(key, prop, result, ord) ==
    LET conv == prop.examples
        example == CASE conv.k = "seq" -> conv.s[1]
                     [] conv.k = "map" -> conv
                     [] OTHER -> Nil
    IN  IF conv.k = "seq" /\ conv.s = <<>> THEN Fail("panic", result, <<>>)
        ELSE IF example.k = "nil" THEN Keep(result)
        ELSE IF ObjectKey \in prop.types
             THEN MergeExample(key, result, parseProperties(prop, ord), example)
        ELSE Put(result, key, example, <<>>)

parseObject(key, prop, result, ord) == Store(key, result, parseProperties(prop, ord))

\* Store leaving the key out when the map is empty.
StoreNonEmpty(key, result, t) ==
    IF t.st = "ok" /\ t.v.m = NoMap THEN Fail("ok", result, t.w) ELSE Store(key, result, t)

RECURSIVE parseArray_SkipEmpty(_, _, _, _)
\* parseArray leaving the key out when the items schema yields an empty map.
parseArray_SkipEmpty(key, prop, result, ord) ==
    LET schema == prop.items[1]
    IN  IF schema.default.k # "nil" THEN Put(result, key, schema.default, <<>>)
        ELSE StoreNonEmpty(key, result, parseProperties(schema, ord))

parseArray(key, prop, result, ord) ==
    LET schema == prop.items[1]
    IN  IF schema.default.k # "nil" THEN Put(result, key, schema.default, <<>>)
        ELSE Store(key, result, parseProperties(schema, ord))

parseOneOf(key, prop, result, ord) ==
    LET downwardSchema == DeepCopy(prop)
        mergedSchema == mergeSchemas(downwardSchema, prop.oneOf.of)
    IN  Store(key, result, parseProperties(mergedSchema, ord))

parseAnyOf(key, prop, result, ord) ==
    LET downwardSchema == DeepCopy(prop)
        mergedSchema == mergeSchemas(downwardSchema, prop.anyOf.of)
    IN  Store(key, result, parseProperties(mergedSchema, ord))

\* (*OpenAPIValuesGenerator).Do
Do(rootSchema, ord) == parseProperties(rootSchema, ord)

----------------------------------------------------------------------------
(* The schemas the generator is run on *)

\* The orders `range` may take over a property map.
Reverse(q) == [i \in DOMAIN q |-> q[Len(q) + 1 - i]]
PropKeys == <<"a", "b", "digests", "global", "mod1", "mod2", "modulesImages", "p", "registry", "x", "y">>
KeyOrders == {PropKeys, Reverse(PropKeys)}

WithDefault(v) == [Schema0 EXCEPT !.default = v]
WithProperties(f) == [Schema0 EXCEPT !.properties = f]
ObjectOf(f) == [Schema0 EXCEPT !.types = {ObjectKey}, !.properties = f]
OnlyAllOf == [Schema0 EXCEPT !.allOf = Of(<<Schema0>>)]

TypeChoices == {{}, {ObjectKey}, {ArrayObject}}
EnumChoices == {<<>>, <<IntV(1), IntV(2)>>}
DefaultChoices == {Nil, IntV(2), MapV(K1("b", IntV(2)))}
PropertiesChoices ==
    {NoMap,
     K1("y", WithDefault(IntV(2))),
     K1("y", WithDefault(MapV(K1("b", IntV(2))))),
     K1("y", ObjectOf(K1("b", WithDefault(IntV(2))))),
     K2("x", OnlyAllOf, "y", WithDefault(IntV(2)))}
ItemsChoices ==
    {<<>>,
     <<WithDefault(IntV(3))>>,
     <<Schema0>>,
     <<WithProperties(K1("y", WithDefault(IntV(2))))>>,
     <<WithProperties(K1("x", OnlyAllOf))>>}
ExamplesChoices ==
    {MapV(K1("x", IntV(1))),
     MapV(K1("y", IntV(9))),
     MapV(K1("y", MapV(K1("a", IntV(1))))),
     MapV(NoMap),
     SeqV(<<MapV(K1("y", IntV(9)))>>),
     SeqV(<<MapV(K2("x", IntV(1), "y", MapV(NoMap)))>>),
     SeqV(<<IntV(1)>>),
     SeqV(<<Nil>>),
     SeqV(<<>>),
     IntV(1)}

BranchPool ==
    {WithProperties(K1("a", WithDefault(IntV(1)))),
     WithProperties(K2("a", WithDefault(IntV(2)), "b", WithDefault(IntV(3)))),
     [WithProperties(K1("b", ObjectOf(K1("y", WithDefault(IntV(4)))))) EXCEPT
         !.oneOf = Of(<<WithProperties(K1("x", WithDefault(IntV(5))))>>)]}
BranchSeqs(n) == UNION {[1..i -> BranchPool] : i \in 0..n}
OfChoices(n) == {NilOf} \cup {Of(q) : q \in BranchSeqs(n)}
AllOfChoices == {NilOf, Of(<<>>), Of(<<Schema0>>)}

\* Properties without x-examples and without oneOf/anyOf/allOf.
PlainPool ==
    {[Schema0 EXCEPT !.types = t, !.properties = f, !.items = i, !.enum = e, !.default = d] :
        t \in TypeChoices, f \in PropertiesChoices, i \in ItemsChoices,
        e \in EnumChoices, d \in DefaultChoices}

\* Properties with x-examples.
ExamplesPool ==
    {[Schema0 EXCEPT !.examples = x, !.types = t, !.properties = f, !.enum = e, !.default = d] :
        x \in ExamplesChoices, t \in TypeChoices, f \in PropertiesChoices,
        e \in EnumChoices, d \in {Nil, IntV(2)}}

\* Properties none of the first five rules takes.
ComposedPool ==
    {[Schema0 EXCEPT !.oneOf = o, !.anyOf = a, !.allOf = l, !.properties = f, !.types = t] :
        o \in OfChoices(MaxBranches), a \in OfChoices(1), l \in AllOfChoices,
        f \in {NoMap, K1("a", WithDefault(IntV(7)))}, t \in {{}, {ArrayObject}}}
    \cup
    {[Schema0 EXCEPT !.anyOf = a, !.oneOf = o, !.properties = f] :
        a \in OfChoices(MaxBranches), o \in {NilOf, Of(<<>>)},
        f \in {NoMap, K1("a", WithDefault(IntV(7)))}}

\* Properties with oneOf/anyOf/allOf beside what the first five rules read.
MixedPool ==
    {[Schema0 EXCEPT !.types = t, !.items = i, !.enum = e, !.default = d, !.examples = x,
                     !.oneOf = o, !.anyOf = a, !.allOf = l] :
        t \in TypeChoices, i \in {<<>>, <<Schema0>>}, e \in EnumChoices, d \in {Nil, IntV(2)},
        x \in {Nil, MapV(K1("x", IntV(1)))},
        o \in OfChoices(1), a \in {NilOf, Of(<<WithProperties(K1("b", WithDefault(IntV(3))))>>)},
        l \in {NilOf, Of(<<Schema0>>)}}

\* Properties whose enum starts with null, alone and beside a property that
\* no rule takes.
NullEnumPool ==
    {[Schema0 EXCEPT !.enum = <<Nil, IntV(1)>>, !.default = d, !.types = t] :
        d \in {Nil, IntV(2)}, t \in TypeChoices}
    \cup {ObjectOf(K2("x", OnlyAllOf, "y", [Schema0 EXCEPT !.enum = <<Nil, IntV(1)>>]))}

PropPool == PlainPool \cup ExamplesPool \cup ComposedPool \cup MixedPool \cup NullEnumPool

\* The root schemas: one property "p" drawn from the pool, held by the loader.
RootOf(prop) == LabelSchema(WithProperties(K1("p", prop)), <<>>)

----------------------------------------------------------------------------
(* ComposeValuesFromSchemas: one call per module, on the workers *)

Workers == {1, 2}
\* m.GetName() and ToLowerCamel(m.GetName()) of the module worker w handles.
ModuleName(w) == IF w = 1 THEN "mod-1" ELSE "mod-2"
ToLowerCamel(name) == IF name = "mod-1" THEN "mod1" ELSE "mod2"

\* chartutil.DefaultCapabilities.APIVersions at process start.
BaselineAPIVersions == <<"v1", "apps/v1">>
VPA == "autoscaling.k8s.io/v1/VerticalPodAutoscaler"

\* DefaultImagesDigests at process start.
BuiltinDigests == Label(MapV(K1("common", MapV(K1("img", IntV(1))))), <<"DefaultImagesDigests">>)

NoRet == [st |-> "none", err |-> "", module |-> "", caps |-> <<>>, values |-> Nil,
          release |-> <<>>]
ErrRet(msg, name) == [NoRet EXCEPT !.st = "err", !.err = msg, !.module = name]

\* A return before helmFormatModuleImages is called.
Early(x, ws) == [done |-> TRUE, ret |-> x, raw |-> Nil, w |-> ws]

\* `rawValues, err := NewOpenAPIValuesGenerator(&combinedSchema).Do()` having
\* returned r.
AfterDo(r) ==
    CASE r.st = "err" -> Early(ErrRet("generate values", ""), r.w)
      [] r.st = "panic" -> Early([NoRet EXCEPT !.st = "panic"], r.w)
      [] OTHER -> [done |-> FALSE, ret |-> NoRet, raw |-> r.v, w |-> r.w]

\* composeValues returning (nil, nil) for a module schema without "values",
\* as it does for a module without schemas.
composeValues_NoValuesCheck(w, validator, ord) ==
    LET name == ModuleName(w)
        mod == store.module
        moduleSchema == [mod.values EXCEPT !.default = MapV(NoMap)]
        globalSchema == [(IF store.global.has THEN store.global.values ELSE Schema0)
                            EXCEPT !.default = MapV(NoMap)]
        combinedSchema ==
            WithProperties(K2(ToLowerCamel(name), moduleSchema, "global", globalSchema))
    IN  CASE validator = "err" -> Early(ErrRet("schemas load", ""), <<>>)
          [] validator = "nil" -> Early([NoRet EXCEPT !.st = "nil"], <<>>)
          [] mod.storage \in {"absent", "nilSchemas", "noValues"} ->
                Early([NoRet EXCEPT !.st = "nil"], <<>>)
          [] OTHER -> AfterDo(Do(combinedSchema, ord))

\* ComposeValuesFromSchemas up to the call of helmFormatModuleImages:
\* validator is what NewValuesValidator returned.  Gives the early return,
\* or rawValues and the writes Do() made.
composeValues(w, validator, ord) ==
    LET name == ModuleName(w)
        mod == store.module
        moduleSchema == [mod.values EXCEPT !.default = MapV(NoMap)]
        globalSchema == [(IF store.global.has THEN store.global.values ELSE Schema0)
                            EXCEPT !.default = MapV(NoMap)]
        combinedSchema ==
            WithProperties(K2(ToLowerCamel(name), moduleSchema, "global", globalSchema))
    IN  CASE validator = "err" -> Early(ErrRet("schemas load", ""), <<>>)
          [] validator = "nil" -> Early([NoRet EXCEPT !.st = "nil"], <<>>)
          [] mod.storage \in {"absent", "nilSchemas"} -> Early([NoRet EXCEPT !.st = "nil"], <<>>)
          [] mod.storage = "noValues" ->
                Early(ErrRet("cannot find openapi values schema for module", name), <<>>)
          [] OTHER -> AfterDo(Do(combinedSchema, ord))

\* GetModulesImagesDigests: the default table when the file is missing or
\* empty, else the file's content, or the error of reading it.
GetModulesImagesDigests(file) ==
    CASE file.state \in {"absent", "empty"} -> [st |-> "ok", v |-> defaultDigests]
      [] file.state = "corrupt" -> [st |-> "err", v |-> Nil]
      [] OTHER -> [st |-> "ok", v |-> Strip(file.content)]

applyDigests(digests, values) ==
    LET obj == MapV(K1("global", MapV(K1("modulesImages", MapV(K1("digests", digests))))))
    IN  deepMerge(values, obj)

\* The shared objects after the writes ws.
RECURSIVE WriteValue(_, _)
WriteValue(v, ws) ==
    IF ws = <<>> THEN v ELSE WriteValue(ReplaceId(v, Head(ws).id, Head(ws).v), Tail(ws))
StoreAfter(ws) ==
    [module |-> [store.module EXCEPT !.values = ApplyWrites(store.module.values, ws)],
     global |-> [store.global EXCEPT !.values = ApplyWrites(store.global.values, ws)]]

Running == \A w \in Workers : pc[w] # "crashed"

\* The state after the first part of the call returned c.
Begun(w, c) ==
    /\ store' = StoreAfter(c.w)
    /\ raw' = [raw EXCEPT ![w] = c.raw]
    /\ ret' = [ret EXCEPT ![w] = c.ret]
    /\ pc' = [pc EXCEPT ![w] = IF ~c.done THEN "load"
                               ELSE IF c.ret.st = "panic" THEN "crashed"
                               ELSE "idle"]

\* ComposeValuesFromSchemas from its start to the call of
\* helmFormatModuleImages, or to its early return.
Begin(w) ==
    /\ Running /\ pc[w] = "idle" /\ calls < MaxCalls
    /\ \E validator \in {"err", "nil", "ok"}, ord \in KeyOrders :
          /\ Begun(w, composeValues(w, validator, ord))
          /\ validated' = [validated EXCEPT ![w] = validator]
    /\ calls' = calls + 1
    /\ UNCHANGED <<defaultCaps, defaultDigests, digestFile, vers>>
    /\ UNCHANGED genVars

\* helmFormatModuleImages: caps := chartutil.DefaultCapabilities (the pointer)
\* and vers := []string(caps.APIVersions)
LoadVersions(w) ==
    /\ Running /\ pc[w] = "load"
    /\ vers' = [vers EXCEPT ![w] = defaultCaps]
    /\ pc' = [pc EXCEPT ![w] = "append"]
    /\ UNCHANGED <<calls, store, defaultCaps, defaultDigests, digestFile, validated, raw, ret>>
    /\ UNCHANGED genVars

\* vers = append(vers, ...); caps.APIVersions = vers: a store through the
\* pointer, into DefaultCapabilities itself.
StoreVersions(w) ==
    /\ Running /\ pc[w] = "append"
    /\ defaultCaps' = Append(vers[w], VPA)
    /\ pc' = [pc EXCEPT ![w] = "digests"]
    /\ UNCHANGED <<calls, store, defaultDigests, digestFile, validated, vers, raw, ret>>
    /\ UNCHANGED genVars

\* The state after applyDigests returned a.
Applied(w, a) ==
    /\ ret' = [ret EXCEPT ![w] =
                [st |-> "ok", err |-> "", module |-> ModuleName(w),
                 caps |-> defaultCaps, values |-> a.v,
                 release |-> <<ModuleName(w), "IsUpgrade", "IsInstall", "Helm">>]]
    /\ store' = StoreAfter(a.w)
    /\ defaultDigests' = WriteValue(defaultDigests, a.w)

\* The state after GetModulesImagesDigests returned d.
Formatted(w, d) ==
    IF d.st # "ok"
    THEN /\ ret' = [ret EXCEPT ![w] = ErrRet("digests", "")]
         /\ UNCHANGED <<store, defaultDigests>>
    ELSE Applied(w, applyDigests(d.v, raw[w]))

\* The rest of helmFormatModuleImages: the digests, their overlay and the
\* render context.  Capabilities is the pointer caps: the context shows the
\* list DefaultCapabilities holds, here as it is at the return.
Finish(w) ==
    /\ Running /\ pc[w] = "digests"
    /\ Formatted(w, GetModulesImagesDigests(digestFile[w]))
    /\ pc' = [pc EXCEPT ![w] = "idle"]
    /\ UNCHANGED <<calls, defaultCaps, digestFile, validated, vers, raw>>
    /\ UNCHANGED genVars

\* The schema documents, digest files and values of the Spec runs.
ModuleValuesChoices ==
    {ObjectOf(K1("y", WithDefault(IntV(2)))),
     Schema0,
     ObjectOf(K1("y", [ObjectOf(NoMap) EXCEPT !.examples = SeqV(<<IntV(1)>>)]))}
ModuleChoices ==
    {[storage |-> st, values |-> Schema0] : st \in {"absent", "nilSchemas", "noValues"}}
    \cup {[storage |-> "values", values |-> LabelSchema(n, <<"module">>)] :
            n \in ModuleValuesChoices}
GlobalValuesChoices ==
    {ObjectOf(NoMap),
     ObjectOf(K1("modulesImages",
                 ObjectOf(K2("digests", ObjectOf(K1("old", WithDefault(IntV(7)))),
                             "registry", WithDefault(IntV(5)))))),
     ObjectOf(K2("registry", WithDefault(IntV(5)),
                 "modulesImages",
                 WithDefault(MapV(K1("digests", MapV(K1("old", IntV(7)))))))),
     Schema0}
GlobalChoices ==
    {[has |-> FALSE, values |-> Schema0]}
    \cup {[has |-> TRUE, values |-> LabelSchema(n, <<"global">>)] : n \in GlobalValuesChoices}
FileChoices ==
    {[state |-> st, content |-> Nil] : st \in {"absent", "empty", "corrupt"}}
    \cup {[state |-> "json", content |-> MapV(K1("common", MapV(K1("img2", IntV(9)))))]}

GenIdle ==
    /\ root = Schema0 /\ pre = Schema0 /\ out = [st |-> "none", v |-> Nil]
    /\ first = [st |-> "none", v |-> Nil]

Init ==
    /\ GenIdle
    /\ calls = 0
    /\ store \in {[module |-> m, global |-> g] : m \in ModuleChoices, g \in GlobalChoices}
    /\ defaultCaps = BaselineAPIVersions
    /\ defaultDigests = BuiltinDigests
    /\ digestFile \in {f \in [Workers -> FileChoices] : f[2].state \in {"absent", "json"}}
    /\ pc = [w \in Workers |-> "idle"]
    /\ validated = [w \in Workers |-> "none"]
    /\ vers = [w \in Workers |-> <<>>]
    /\ raw = [w \in Workers |-> Nil]
    /\ ret = [w \in Workers |-> NoRet]

Next == \E w \in Workers : Begin(w) \/ LoadVersions(w) \/ StoreVersions(w) \/ Finish(w)

Spec == Init /\ [][Next]_vars

----------------------------------------------------------------------------
(* SpecGen: generation calls on one root schema *)

NotRun == [st |-> "none", v |-> Nil]

InitGen ==
    /\ root \in {RootOf(prop) : prop \in PropPool} \cup {LabelSchema(Schema0, <<>>)}
    /\ pre = root
    /\ out = NotRun
    /\ first = NotRun
    /\ calls = 0
    /\ store = [module |-> [storage |-> "absent", values |-> Schema0],
                global |-> [has |-> FALSE, values |-> Schema0]]
    /\ defaultCaps = BaselineAPIVersions
    /\ defaultDigests = BuiltinDigests
    /\ digestFile = [w \in Workers |-> [state |-> "absent", content |-> Nil]]
    /\ pc = [w \in Workers |-> "idle"]
    /\ validated = [w \in Workers |-> "none"]
    /\ vers = [w \in Workers |-> <<>>]
    /\ raw = [w \in Workers |-> Nil]
    /\ ret = [w \in Workers |-> NoRet]

\* The state after Do() returned r.
Generated(r) ==
    /\ out' = [st |-> r.st, v |-> r.v]
    /\ root' = ApplyWrites(root, r.w)
    /\ first' = IF calls = 0 THEN [st |-> r.st, v |-> r.v] ELSE first

\* NewOpenAPIValuesGenerator(root).Do(): the value tree it returns, and the
\* schema as the call leaves it.  A panic ends the process.
Generate ==
    /\ calls < MaxCalls
    /\ out.st # "panic"
    /\ \E ord \in KeyOrders : Generated(Do(root, ord))
    /\ pre' = root
    /\ calls' = calls + 1
    /\ UNCHANGED composeVars

NextGen == Generate

SpecGen == InitGen /\ [][NextGen]_vars

----------------------------------------------------------------------------
(* Claims about one property, checked under SpecGen on the root's "p" *)

\* The property the last call resolved, as it was when the call started.
Prop == IF "p" \in DOMAIN pre.properties THEN pre.properties["p"] ELSE Schema0
Called == calls > 0
\* The last call put a value under the key / the value it put.
Produced == out.st = "ok" /\ "p" \in DOMAIN out.v.m
Omitted == out.st = "ok" /\ "p" \notin DOMAIN out.v.m
Value == Strip(out.v.m["p"])

IsSet(v) == v.k # "nil"
HasExamples(prop) == IsSet(prop.examples)
ArrayWithItems(prop) == ArrayObject \in prop.types /\ prop.items # <<>>
\* None of the rules 1-5 takes the property.
PastRule5(prop) ==
    /\ ~HasExamples(prop)
    /\ prop.enum = <<>>
    /\ ObjectKey \notin prop.types
    /\ ~IsSet(prop.default)
    /\ ~ArrayWithItems(prop)

EndsAs(t) ==
    /\ out.st = t.st
    /\ t.st = "ok" => (Produced /\ Value = Strip(t.v))

\* The last call ended as the generator ends on the schema node: with its
\* error, or with its mapping under the key.
ResolvesAs(node) ==
    \E ord \in KeyOrders : EndsAs(Do(node, ord))

\* C1: a property without x-examples takes the first of the rules 2-5 that
\* matches: a non-empty enum gives default when set, else the first element;
\* else type "object" gives the mapping of its own properties, a default
\* notwithstanding; else a set default gives that default, an items schema
\* notwithstanding; only then does an array with items give the value of the
\* array rule.
C1_RuleOrder ==
    (Called /\ ~HasExamples(Prop)) =>
        IF Prop.enum # <<>>
        THEN Produced /\ Value = Strip(IF IsSet(Prop.default) THEN Prop.default ELSE Prop.enum[1])
        ELSE IF ObjectKey \in Prop.types
        THEN ResolvesAs(WithProperties(Prop.properties))
        ELSE IF IsSet(Prop.default)
        THEN Produced /\ Value = Strip(Prop.default)
        ELSE (ArrayWithItems(Prop) /\ IsSet(Prop.items[1].default)) =>
                (Produced /\ Value = Strip(Prop.items[1].default))

\* An object with a default and properties of its own resolved to the
\* mapping of its properties, not to the default.
C1_Witness ==
    /\ Called /\ ~HasExamples(Prop) /\ Prop.enum = <<>>
    /\ ObjectKey \in Prop.types /\ IsSet(Prop.default) /\ Prop.properties # NoMap
    /\ Produced /\ Value # Strip(Prop.default) /\ Value.k = "map" /\ Value.m # NoMap

\* The candidate example of rule 1.
Candidate(prop) ==
    CASE prop.examples.k = "seq" /\ prop.examples.s # <<>> -> prop.examples.s[1]
      [] prop.examples.k = "map" -> prop.examples
      [] OTHER -> Nil
ObjectWithExample(prop) == ObjectKey \in prop.types /\ Candidate(prop).k = "map"

\* C2 as stated: for an object whose candidate example is a mapping E, the
\* result R has the keys of E and of S (the resolution of the property's own
\* properties), R[k] = E[k] for every key of E and R[k] = S[k] for the others.
C2_ExampleReplaces ==
    (Called /\ ObjectWithExample(Prop)) =>
        \E ord \in KeyOrders :
            LET S == Do(Prop, ord)
                E == Strip(Candidate(Prop))
            IN  S.st = "ok" =>
                    /\ Produced /\ Value.k = "map"
                    /\ DOMAIN Value.m = (DOMAIN E.m) \cup (DOMAIN S.v.m)
                    /\ \A z \in DOMAIN E.m : Value.m[z] = E.m[z]
                    /\ \A z \in (DOMAIN S.v.m) \ (DOMAIN E.m) : Value.m[z] = Strip(S.v.m[z])

RECURSIVE Overlaid(_, _, _)
\* R is S overlaid by E: the keys of both; a key of E holds E's value, unless
\* S holds a mapping there and E's value is a mapping too, and then it holds
\* S's mapping overlaid by E's in the same way; the other keys hold S's value.
Overlaid(R, S, E) ==
    /\ R.k = "map"
    /\ DOMAIN R.m = (DOMAIN E.m) \cup (DOMAIN S.m)
    /\ \A z \in DOMAIN R.m :
          IF z \notin DOMAIN E.m THEN R.m[z] = S.m[z]
          ELSE IF z \in DOMAIN S.m /\ S.m[z].k = "map" /\ E.m[z].k = "map"
               THEN Overlaid(R.m[z], S.m[z], E.m[z])
               ELSE R.m[z] = E.m[z]

\* C2, amended: for an object whose candidate example is a mapping E, the
\* result is S overlaid by E, where a key under which both S and E hold a
\* mapping is overlaid recursively rather than replaced.
C2_ExampleOverlay ==
    (Called /\ ObjectWithExample(Prop)) =>
        \E ord \in KeyOrders :
            LET S == Do(Prop, ord)
            IN  S.st = "ok" => (Produced /\ Overlaid(Value, Strip(S.v), Strip(Candidate(Prop))))

\* An example's mapping met a synthesized mapping under the same key, and
\* the result under that key is not the example's value.
C2_Witness ==
    /\ Called /\ ObjectWithExample(Prop) /\ Produced
    /\ \E z \in DOMAIN Candidate(Prop).m :
          /\ Candidate(Prop).m[z].k = "map"
          /\ Value.m[z] # Strip(Candidate(Prop).m[z])
          /\ Value.m[z].k = "map"

\* The property is resolved by the oneOf rule / by the anyOf rule.
ByOneOf(prop) == PastRule5(prop) /\ ~prop.allOf.set /\ prop.oneOf.set
ByAnyOf(prop) == PastRule5(prop) /\ ~prop.allOf.set /\ ~prop.oneOf.set /\ prop.anyOf.set

Max(S) == CHOOSE i \in S : \A j \in S : j <= i
\* The property set claimed for the composite: under each key declared by
\* the base or a branch, the schema of the last branch declaring it, or the
\* base's when no branch declares it.
LastDeclared(base, branches) ==
    LET declaring(z) == {i \in DOMAIN branches : z \in DOMAIN branches[i].properties}
        all == (DOMAIN base.properties) \cup
               UNION {DOMAIN branches[i].properties : i \in DOMAIN branches}
    IN  [z \in all |-> IF declaring(z) = {} THEN base.properties[z]
                       ELSE branches[Max(declaring(z))].properties[z]]

\* C3: a property resolved by the oneOf (or anyOf) rule resolves to the
\* mapping of the composite property set: the base's own properties overlaid
\* by each branch's in branch order, the last branch declaring a key giving
\* its schema, every key of the base or of a single branch kept.
C3_LastBranchWins ==
    /\ (Called /\ ByOneOf(Prop)) =>
          ResolvesAs(WithProperties(LastDeclared(Prop, Prop.oneOf.of)))
    /\ (Called /\ ByAnyOf(Prop)) =>
          ResolvesAs(WithProperties(LastDeclared(Prop, Prop.anyOf.of)))

\* Two oneOf branches declare "a" with different defaults, the second also
\* "b": the result holds the second branch's a = 2 and b = 3.
C3_Witness ==
    /\ Called /\ ByOneOf(Prop) /\ Len(Prop.oneOf.of) = 2
    /\ "a" \in DOMAIN Prop.oneOf.of[1].properties
    /\ "a" \in DOMAIN Prop.oneOf.of[2].properties
    /\ Prop.oneOf.of[1].properties["a"] # Prop.oneOf.of[2].properties["a"]
    /\ "a" \in DOMAIN Prop.properties
    /\ Produced /\ DOMAIN Value.m = {"a", "b"}
    /\ Value.m["a"] = IntV(2) /\ Value.m["b"] = IntV(3)

\* C4 as stated: after any sequence of generation calls every schema node
\* reachable from the root is as it was before the calls, and a later call
\* returns the value tree the first call returned.
C4_SchemaUntouched ==
    Called => /\ DeepCopy(root) = DeepCopy(pre)
              /\ (out.st = "ok" /\ first.st = "ok") => Strip(out.v) = Strip(first.v)

\* C8 as stated: by the array rule, items.default when set is the result as
\* it is; otherwise the mapping of the items schema's own properties is the
\* result when it is non-empty, and when it is empty the key is absent.
ByArray(prop) ==
    /\ ~HasExamples(prop) /\ prop.enum = <<>> /\ ObjectKey \notin prop.types
    /\ ~IsSet(prop.default) /\ ArrayWithItems(prop)
C8_EmptyItemsOmitted ==
    (Called /\ ByArray(Prop)) =>
        IF IsSet(Prop.items[1].default)
        THEN Produced /\ Value = Strip(Prop.items[1].default)
        ELSE \E ord \in KeyOrders :
                LET t == Do(Prop.items[1], ord)
                IN  t.st = "ok" =>
                        IF t.v.m # NoMap THEN Produced /\ Value = Strip(t.v) ELSE Omitted

\* C8, amended: by the array rule, items.default when set is the result as
\* it is (a scalar stays a scalar); otherwise the mapping of the items
\* schema's own properties is the result, also when it is empty: the key is
\* then present with an empty mapping.
C8_ItemsMapping ==
    (Called /\ ByArray(Prop)) =>
        IF IsSet(Prop.items[1].default)
        THEN Produced /\ Value = Strip(Prop.items[1].default)
        ELSE ResolvesAs(Prop.items[1])

\* An array whose items schema has no default and yields no entry resolved
\* to an empty mapping under the key.
C8_Witness ==
    /\ Called /\ ByArray(Prop) /\ ~IsSet(Prop.items[1].default)
    /\ Produced /\ Value = MapV(NoMap)

\* The composite mapping the rules 6 and 7 build from the branches.
CompositeOf(prop, branches) == WithProperties(LastDeclared(prop, branches))

\* C9 as stated: a property none of the rules 1-5 takes resolves by oneOf
\* when oneOf is non-empty, else by anyOf when anyOf is non-empty, and yields
\* no value only when both are empty, whether or not allOf is set.
C9_AllOfIgnored ==
    (Called /\ PastRule5(Prop)) =>
        IF Prop.oneOf.of # <<>> THEN ResolvesAs(CompositeOf(Prop, Prop.oneOf.of))
        ELSE IF Prop.anyOf.of # <<>> THEN ResolvesAs(CompositeOf(Prop, Prop.anyOf.of))
        ELSE Omitted

\* C9, amended: a property none of the rules 1-5 takes yields no value when
\* allOf is set (not nil), whatever oneOf and anyOf hold; else it resolves by
\* oneOf when oneOf is set, even to an empty sequence; else by anyOf when
\* anyOf is set; and yields no value when none of the three is set.
C9_AllOfFirst ==
    (Called /\ PastRule5(Prop)) =>
        IF Prop.allOf.set THEN Omitted
        ELSE IF Prop.oneOf.set THEN ResolvesAs(CompositeOf(Prop, Prop.oneOf.of))
        ELSE IF Prop.anyOf.set THEN ResolvesAs(CompositeOf(Prop, Prop.anyOf.of))
        ELSE Omitted

\* allOf was set beside a non-empty oneOf and the key is absent.
C9_Witness ==
    /\ Called /\ PastRule5(Prop) /\ Prop.allOf.set /\ Prop.oneOf.of # <<>> /\ Omitted

----------------------------------------------------------------------------
(* Claims about ComposeValuesFromSchemas, checked under Spec *)

\* Worker w's last call has returned, and NewValuesValidator had given it a
\* validator.
CallReturned(w) == pc[w] = "idle" /\ validated[w] = "ok"
\* The value at path in the value tree v, Nil where the path leaves it.
RECURSIVE At(_, _)
At(v, path) ==
    IF path = <<>> THEN v
    ELSE IF v.k = "map" /\ Head(path) \in DOMAIN v.m THEN At(v.m[Head(path)], Tail(path))
    ELSE Nil
DigestsPath == <<"global", "modulesImages", "digests">>
\* The digest table the call of worker w resolves.
ResolvedDigests(w) ==
    IF digestFile[w].state = "json" THEN Strip(digestFile[w].content) ELSE Strip(BuiltinDigests)

\* C5 as stated: the entry point holds no mutable process-wide state: no
\* step of a call writes the baseline capability descriptor, the default
\* digest table or a shared schema node.
C5_SharedOnlyRead ==
    [][/\ defaultCaps' = defaultCaps
       /\ defaultDigests' = defaultDigests
       /\ store' = store]_vars

\* C6 as stated: the context of every call holds the baseline API versions
\* followed by exactly one VerticalPodAutoscaler entry, the n-th call's as
\* the first's, and the baseline list is the same before and after each call.
C6_OneExtraVersion ==
    /\ \A w \in Workers : ret[w].st = "ok" => ret[w].caps = Append(BaselineAPIVersions, VPA)
    /\ \A w \in Workers : pc[w] = "idle" => defaultCaps = BaselineAPIVersions

\* C7 as stated: after the overlay the value at global.modulesImages.digests
\* is exactly the resolved digest table, whatever the generated tree held
\* there, and every other key under global and global.modulesImages keeps
\* its value.
Kept(before, after, but) ==
    before.k = "map" =>
        \A z \in (DOMAIN before.m) \ {but} : z \in DOMAIN after.m /\ after.m[z] = before.m[z]
C7_DigestsReplaced ==
    \A w \in Workers :
        (CallReturned(w) /\ ret[w].st = "ok") =>
            /\ Strip(At(ret[w].values, DigestsPath)) = ResolvedDigests(w)
            /\ Kept(Strip(At(raw[w], <<"global">>)), Strip(At(ret[w].values, <<"global">>)),
                    "modulesImages")
            /\ Kept(Strip(At(raw[w], <<"global", "modulesImages">>)),
                    Strip(At(ret[w].values, <<"global", "modulesImages">>)), "digests")

\* C10 as stated: the call returns an error and no render context whenever
\* the module schema or the global schema lacks "values".
C10_EitherMissingFails ==
    \A w \in Workers :
        (/\ CallReturned(w)
         /\ store.module.storage \in {"noValues", "values"}
         /\ (store.module.storage = "noValues" \/ ~store.global.has))
        => (ret[w].st = "err" /\ ret[w].values = Nil)

\* C10, amended: the call returns an error naming the module, and no render
\* context, whenever the module's schema document lacks "values"; a global
\* schema without "values" is no error: the global part is generated from an
\* empty schema, and a call that returns a context then holds under "global"
\* the digest overlay alone.
C10_ModuleValuesRequired ==
    \A w \in Workers :
        /\ (CallReturned(w) /\ store.module.storage = "noValues") =>
              /\ ret[w].st = "err"
              /\ ret[w].err = "cannot find openapi values schema for module"
              /\ ret[w].module = ModuleName(w)
              /\ ret[w].values = Nil /\ ret[w].caps = <<>>
        /\ (CallReturned(w) /\ store.module.storage = "values" /\ ~store.global.has) =>
              /\ ret[w].err # "cannot find openapi values schema for module"
              /\ (ret[w].st = "err" => ret[w].err \in {"generate values", "digests"})
              /\ ret[w].st = "ok" =>
                    Strip(At(ret[w].values, <<"global">>)) =
                        MapV(K1("modulesImages", MapV(K1("digests", ResolvedDigests(w)))))

\* A call on a global schema without "values" returned a render context.
C10_Witness ==
    \E w \in Workers :
        /\ CallReturned(w) /\ store.module.storage = "values" /\ ~store.global.has
        /\ ret[w].st = "ok" /\ ret[w].values.k = "map"
        /\ DOMAIN ret[w].values.m = {"global", ToLowerCamel(ModuleName(w))}

----------------------------------------------------------------------------
(* Claims about the output mapping and the outcomes, checked under SpecGen *)

\* The resolution of the property produces a value: its candidate example is
\* not null, or without x-examples one of the rules 2-7 takes it.
Yields(prop) ==
    IF HasExamples(prop) THEN IsSet(Candidate(prop))
    ELSE \/ prop.enum # <<>>
         \/ ObjectKey \in prop.types
         \/ IsSet(prop.default)
         \/ ArrayWithItems(prop)
         \/ (~prop.allOf.set /\ (prop.oneOf.set \/ prop.anyOf.set))
KeysOf(props) == {z \in DOMAIN props : Yields(props[z])}
\* The schema gives null itself as the property's value: the first element of
\* its enum, no default set.
OwnNull(prop) ==
    ~HasExamples(prop) /\ prop.enum # <<>> /\ ~IsSet(prop.enum[1]) /\ ~IsSet(prop.default)
\* mapping holds a key exactly for the properties of props that produce a
\* value, and null under a key only where the schema gives null itself.
KeysExact(mapping, props) ==
    /\ mapping.k = "map"
    /\ DOMAIN mapping.m = KeysOf(props)
    /\ \A z \in DOMAIN mapping.m : ~IsSet(mapping.m[z]) => OwnNull(props[z])
\* The generator builds the value under the key from a property set.
ByObject(prop) == ~HasExamples(prop) /\ prop.enum = <<>> /\ ObjectKey \in prop.types
ByItems(prop) == ByArray(prop) /\ ~IsSet(prop.items[1].default)

\* C11: the mapping a generation call returns holds a key exactly for the
\* properties whose resolution produces a value, at the top and at every
\* level the generator builds from a property set (an object's properties,
\* an array's items schema, a oneOf/anyOf composite); a property that
\* produces nothing is absent, never present with null; a schema without
\* properties gives the empty mapping, never a null result.
C11_KeysExactlyProduced ==
    (Called /\ out.st = "ok") =>
        /\ KeysExact(out.v, pre.properties)
        /\ pre.properties = NoMap => out.v = MapV(NoMap)
        /\ ByObject(Prop) => KeysExact(Value, Prop.properties)
        /\ ByItems(Prop) => KeysExact(Value, Prop.items[1].properties)
        /\ ByOneOf(Prop) => KeysExact(Value, LastDeclared(Prop, Prop.oneOf.of))
        /\ ByAnyOf(Prop) => KeysExact(Value, LastDeclared(Prop, Prop.anyOf.of))

\* An object with a property no rule takes beside one that produces a value
\* was resolved: its mapping holds the second key alone.
C11_Witness ==
    /\ Called /\ out.st = "ok" /\ ByObject(Prop)
    /\ \E z \in DOMAIN Prop.properties : ~Yields(Prop.properties[z])
    /\ \E z \in DOMAIN Prop.properties : Yields(Prop.properties[z])
    /\ Produced /\ Value.k = "map"
    /\ DOMAIN Value.m # {} /\ DOMAIN Value.m # DOMAIN Prop.properties

\* C12 as stated: whatever x-examples and the other fields hold, a call ends
\* with a value under the key, with the key omitted, or with an error and no
\* value tree; it never aborts abnormally.
C12_ResolveTotal ==
    Called =>
        /\ out.st \in {"ok", "err"}
        /\ out.st = "ok" => (out.v.k = "map" /\ (Produced \/ Omitted))
        /\ out.st = "err" => out.v = Nil

====
